---- MODULE Spec2Model ----
(***************************************************************************)
(* Model of the lnobserver front end: the App component (polling, channel  *)
(* event detection, bounded pending-event list) and the LightningGraph     *)
(* component (full-replace redraw, lightning effects, sound cooldown,      *)
(* wheel zoom).  Times are wall-clock milliseconds.  Strings that the code *)
(* concatenates or splits (node pubkeys, channel ids) are tuples of        *)
(* one-character strings.                                                  *)
(***************************************************************************)
EXTENDS Integers, Sequences, FiniteSets, TLC

VARIABLES
  \* ---- App state (useState / useRef) ----
  nodes,                 \* useState<Node[]>: node ids in insertion order
  channels,              \* useState<Channel[]>
  channelEvents,         \* useState<{id, ts, status}[]>: the pending events
  prevChannelsRef,       \* useRef<Set<string>>: the diff baseline (insertion ordered)
  isFirstLoad,           \* useRef(true)
  logs,                  \* useState<string[]>: newest first, kind of each line
  showAllChannels,       \* useState(false)
  debugLightningTrigger, \* useState(0)
  MAX_CHANNEL_EVENTS,    \* configuration read once at load
  \* ---- environment ----
  clock,                 \* what Date.now() returns
  inflight,              \* fetchChannelsGeo calls that are awaiting their response
  awaiting,              \* which calls these are: 1 is the call at mount, 2 the next, ..
  polls,                 \* fetchChannelsGeo calls started so far
  \* ---- LightningGraph state ----
  world,                 \* useState(null): TRUE once the map dataset is loaded
  dimensions,            \* useState({width, height})
  lastSoundTimeRef,      \* useRef(0)
  zoomAttached,          \* a d3 zoom behaviour is installed on the svg
  zoomGroup,             \* the g#zoom-group the zoom handler closes over
  zoomTransform,         \* the zoom transform kept on the svg: scale k (permille), pan x
  groupTransform,        \* transform attribute of the displayed g#zoom-group
  effects,               \* lightning polylines appended by the latest redraw
  surface,               \* the g#zoom-group elements of the svg, each with its static layer
  anims,                 \* the lightning polylines in the svg, each with its fade transition
  \* ---- observation of the latest step ----
  lastPoll,              \* what the poll that completed in the latest step did
  lastDraw,              \* what the redraw effect did in the latest step
  \* ---- history ----
  zoomedBy,              \* type of the input event that last changed the zoom transform
  accepted,              \* a snapshot has been accepted
  acceptedFrom           \* the call whose snapshot was accepted last (0: none)

appVars   == <<nodes, channels, channelEvents, prevChannelsRef, isFirstLoad,
               logs, showAllChannels, debugLightningTrigger, MAX_CHANNEL_EVENTS>>
envVars   == <<clock, inflight, polls, awaiting>>
viewVars  == <<world, dimensions, lastSoundTimeRef, zoomAttached, zoomGroup,
               zoomTransform, groupTransform, effects, surface, anims>>
ghostVars == <<lastPoll, lastDraw, zoomedBy, accepted, acceptedFrom>>
vars      == <<appVars, envVars, viewVars, ghostVars>>

----------------------------------------------------------------------------
\* Program constants
WINDOW_MS   == 5000      \* App: now - e.ts < 5000
COOLDOWN_MS == 1000      \* LightningGraph: now - last > 1000
LogKeep     == 199       \* App: prev.slice(0, 199)
ScaleMin    == 500       \* scaleExtent([0.5, 10]), permille
ScaleMax    == 10000

\* Bounds of the model
MaxTicks    == 5         \* clock advances at most this many ticks
MaxCap      == 1         \* MAX_CHANNEL_EVENTS ranges over 0..MaxCap
MaxPolls    == 2         \* polls started
MaxInflight == 2         \* overlapping fetches
MaxTrigger  == 1         \* debug trigger increments
MaxSoundTicks == 3       \* ticks of the clock while the sound cooldown is observed
AnimationSeconds == 2    \* configured ANIMATION_DURATION, in seconds

TickMs      == COOLDOWN_MS          \* granularity of the clock
ANIMATION_DURATION == AnimationSeconds * 1000   \* parseInt(env || "60", 10) * 1000
StartClock  == 2 * TickMs           \* Date.now() at mount (far above the cooldown)
MaxClock    == StartClock + MaxTicks * TickMs
IdentityK   == 2 * ScaleMin         \* scale 1
Identity    == [k |-> IdentityK, x |-> 0]   \* d3.zoomIdentity
NoTransform == [k |-> 0, x |-> 0]   \* the group has no transform attribute
NaN         == 0 - 1                \* (idx + 1) % 0

Min(a, b) == IF a < b THEN a ELSE b
Max(a, b) == IF a > b THEN a ELSE b
Range(s)  == {s[i] : i \in DOMAIN s}

\* Inputs: pubkeys (hex, no dash) and the geodata arrays the API may return.
NodeA == <<"a">>
NodeB == <<"b">>
EntryAB == <<NodeA, NodeB>>       \* [node1_pubkey, .., node2_pubkey, ..]
EntryBB == <<NodeB, NodeB>>       \* both ends the same pubkey
Snapshots == {<<>>, <<EntryAB>>, <<EntryBB>>, <<EntryAB, EntryBB>>}
Sizes == {"narrow", "wide"}             \* window.innerWidth
InitialSize == "narrow"
WheelFactors == {<<1, 4>>, <<32, 1>>}       \* 2^(-deltaY * ...) as num/den
OtherInputs == {"mousedown", "dblclick"}

----------------------------------------------------------------------------
\* Array.prototype.slice(start)
Slice(s, start) ==
  LET len == Len(s)
      k   == IF start < 0 THEN Max(len + start, 0) ELSE Min(start, len)
  IN SubSeq(s, k + 1, len)

\* arr.slice(-n): -0 is 0, so n = 0 copies the whole array
SliceLast(s, n) == Slice(s, 0 - n)

\* log(msg): setLogs(prev => [msg, ...prev.slice(0, 199)])
Log(l, msg) == <<msg>> \o SubSeq(l, 1, Min(Len(l), LogKeep))

RECURSIVE LogAll(_, _)
LogAll(l, msgs) ==
  IF msgs = <<>> THEN l ELSE LogAll(Log(l, Head(msgs)), Tail(msgs))

\* `${node1_pubkey}-${node2_pubkey}`
ChannelIdOf(n1, n2) == n1 \o <<"-">> \o n2

\* id.split("-")
RECURSIVE SplitDash(_, _, _)
SplitDash(s, cur, acc) ==
  IF s = <<>> THEN Append(acc, cur)
  ELSE IF Head(s) = "-" THEN SplitDash(Tail(s), <<>>, Append(acc, cur))
  ELSE SplitDash(Tail(s), Append(cur, Head(s)), acc)
Split(id) == SplitDash(id, <<>>, <<>>)

\* nodeMap / Object.values(nodeMap): first occurrence order
RECURSIVE NodeArr(_, _)
NodeArr(data, acc) ==
  IF data = <<>> THEN acc
  ELSE LET e  == Head(data)
           a1 == IF e[1] \in Range(acc) THEN acc ELSE Append(acc, e[1])
           a2 == IF e[2] \in Range(a1) THEN a1 ELSE Append(a1, e[2])
       IN NodeArr(Tail(data), a2)

ChannelArr(data) ==
  [i \in 1..Len(data) |->
     [id |-> ChannelIdOf(data[i][1], data[i][2]),
      source |-> data[i][1], target |-> data[i][2], status |-> "open"]]

\* new Set(channelArr.map(c => c.id)): insertion order, no duplicates
RECURSIVE IdSet(_, _)
IdSet(chs, acc) ==
  IF chs = <<>> THEN acc
  ELSE IdSet(Tail(chs),
             IF Head(chs).id \in Range(acc) THEN acc ELSE Append(acc, Head(chs).id))
\* a variant that builds an empty id set
NoChannelIds(chs) == <<>>
CurrentChannelIds(chs) == IdSet(chs, <<>>)

----------------------------------------------------------------------------
\* App.fetchChannelsGeo: event detection and admission

\* a variant that never takes the baseline branch
IsBaselineNever(first, prev) == FALSE
\* if (isFirstLoad.current || prevChannels.size === 0)
IsBaseline(first, prev) == first \/ Len(prev) = 0

OpenedIds(prev, cur) == SelectSeq(cur, LAMBDA id : id \notin Range(prev))
ClosedIds(prev, cur) == SelectSeq(prev, LAMBDA id : id \notin Range(cur))

\* a variant with the first detection loop only
DetectOpensOnly(prev, cur, ts) ==
  LET o == OpenedIds(prev, cur)
  IN [i \in 1..Len(o) |-> [id |-> o[i], ts |-> ts[i], status |-> "open"]]
\* The two detection loops; ts[i] is the Date.now() reading of the i-th push.
DetectEvents(prev, cur, ts) ==
  LET o == OpenedIds(prev, cur)
      c == ClosedIds(prev, cur)
  IN [i \in 1..Len(o) |-> [id |-> o[i], ts |-> ts[i], status |-> "open"]]
     \o [i \in 1..Len(c) |->
           [id |-> c[i], ts |-> ts[Len(o) + i], status |-> "closed"]]
NumDetected(prev, cur) == Len(OpenedIds(prev, cur)) + Len(ClosedIds(prev, cur))

\* if (newEvents.length > MAX_CHANNEL_EVENTS) newEvents = newEvents.slice(-MAX_CHANNEL_EVENTS)
TooMany(newEvents, cap) == Len(newEvents) > cap
LimitNewEvents(newEvents, cap) ==
  IF TooMany(newEvents, cap) THEN SliceLast(newEvents, cap) ELSE newEvents

\* setChannelEvents(prev => ...): window filter, append, slice
AdmitEvents(prev, newEvents, now, cap) ==
  LET filteredPrev == SelectSeq(prev, LAMBDA e : now - e.ts < WINDOW_MS)
      allEvents    == filteredPrev \o newEvents
  IN SliceLast(allEvents, cap)

\* Log lines of the diff branch, in the order they are written.
DiffLogLines(detected, cap) ==
  <<"received">>
  \o [i \in 1..Len(detected) |->
        IF detected[i].status = "open" THEN "opened" ELSE "closed"]
  \o (IF TooMany(detected, cap) THEN <<"warning">> ELSE <<>>)
  \o <<"updated">>

\* Date.now() readings one run of the diff branch can see: <<k, t2, now>>, the
\* first k pushes read the clock as it is, the others read t2, the state
\* updater reads now.
Readings(n) ==
  {<<n, clock, clock>>}
  \cup (IF clock < MaxClock
        THEN {<<n, clock, clock + TickMs>>}
             \cup {<<k, clock + TickMs, clock + TickMs>> : k \in 1..(n - 1)}
        ELSE {})
Stamps(n, k, t2) == [i \in 1..n |-> IF i <= k THEN clock ELSE t2]

----------------------------------------------------------------------------
\* App render: the channels prop handed to LightningGraph
ChannelsProp(showAll, chs, evs) ==
  IF showAll THEN chs
  ELSE LET recent == SelectSeq(chs, LAMBDA c : \E i \in DOMAIN evs : evs[i].id = c.id)
           gone   == SelectSeq(evs, LAMBDA e :
                        /\ e.status = "closed"
                        /\ ~ \E i \in DOMAIN chs : chs[i].id = e.id)
       IN recent \o
          [i \in 1..Len(gone) |->
             [id |-> gone[i].id, source |-> Split(gone[i].id)[1],
              target |-> Split(gone[i].id)[2], status |-> "closed"]]

----------------------------------------------------------------------------
\* LightningGraph: the redraw effect

OpenColour   == "#ffe066"
ClosedColour == "#ff4d4d"

\* a variant without the cooldown
PlayAlways(now, last) == [played |-> TRUE, last |-> now]
\* playLightningSound(): started iff the cooldown has passed
PlayLightningSound(now, last) ==
  IF now - last > COOLDOWN_MS
  THEN [played |-> TRUE, last |-> now]
  ELSE [played |-> FALSE, last |-> last]

\* Math.floor(Math.random() * nodePositions.length)
SampleIdx(n) == 0..Max(n - 1, 0)
\* if (idx1 === idx2) idx2 = (idx2 + 1) % nodePositions.length
DebugIdx2(idx1, idx2, n) ==
  IF idx1 = idx2 THEN (IF n = 0 THEN NaN ELSE (idx2 + 1) % n) ELSE idx2
\* nodePositions[idx] is defined
HasNode(ns, idx) == idx >= 0 /\ idx < Len(ns)
IndexOf(ns, id) == CHOOSE i \in 0..(Len(ns) - 1) : ns[i + 1] = id

DebugRuns(ns, trig, r1, r2) ==
  /\ trig > 0
  /\ HasNode(ns, r1)
  /\ HasNode(ns, DebugIdx2(r1, r2, Len(ns)))
DebugEffect(ns, trig, r1, r2) ==
  IF DebugRuns(ns, trig, r1, r2)
  THEN LET i2 == DebugIdx2(r1, r2, Len(ns))
       IN <<[kind |-> "debug", id |-> <<>>, stroke |-> OpenColour,
             source |-> ns[r1 + 1], target |-> ns[i2 + 1],
             sidx |-> r1, tidx |-> i2]>>
  ELSE <<>>

\* channels.find(c => c.id === event.id), then nodeMap[source] && nodeMap[target]
Matches(chs, id) == SelectSeq(chs, LAMBDA c : c.id = id)
Resolves(ns, chs, e) ==
  /\ Matches(chs, e.id) # <<>>
  /\ Head(Matches(chs, e.id)).source \in Range(ns)
  /\ Head(Matches(chs, e.id)).target \in Range(ns)
LimitedEvents(evs, cap) == SliceLast(evs, cap)
OrganicEffects(ns, chs, evs, cap) ==
  LET shown == SelectSeq(LimitedEvents(evs, cap), LAMBDA e : Resolves(ns, chs, e))
  IN [i \in 1..Len(shown) |->
        LET c == Head(Matches(chs, shown[i].id))
        IN [kind |-> "organic", id |-> shown[i].id,
            stroke |-> IF shown[i].status = "closed" THEN ClosedColour ELSE OpenColour,
            source |-> c.source, target |-> c.target,
            sidx |-> IndexOf(ns, c.source), tidx |-> IndexOf(ns, c.target)]]

\* One run of the redraw effect: the polylines it appends and its sound calls
\* (debug branch first, then the batch of channel events).
Redraw(ns, chs, evs, trig, cap, now, last, r1, r2) ==
  LET dbg    == DebugEffect(ns, trig, r1, r2)
      s1     == IF dbg # <<>> THEN PlayLightningSound(now, last)
                ELSE [played |-> FALSE, last |-> last]
      batch  == Len(evs) > 0 /\ Len(LimitedEvents(evs, cap)) > 0
      s2     == IF batch THEN PlayLightningSound(now, s1.last)
                ELSE [played |-> FALSE, last |-> s1.last]
  IN [effects |-> dbg \o OrganicEffects(ns, chs, evs, cap),
      last    |-> s2.last,
      calls   |-> (IF dbg # <<>> THEN 1 ELSE 0) + (IF batch THEN 1 ELSE 0),
      cues    |-> (IF s1.played THEN 1 ELSE 0) + (IF s2.played THEN 1 ELSE 0),
      adhoc   |-> Len(dbg)]

\* audio.play().catch(() => {}): a rejected playback is swallowed
PlayUncaught(rejected) == IF rejected THEN "unhandled" ELSE "playing"
PlayCaught(rejected) == IF rejected THEN "swallowed" ELSE "playing"

\* a variant that appends the new group without removing the old ones
KeepGroups(s) == s
\* svg.selectAll("g#zoom-group").remove()
RemoveGroups(s) == SelectSeq(s, LAMBDA g : g.id # "zoom-group")
\* The static layer of a new group: the map paths when the dataset is loaded,
\* one line per channel of the channels prop (x1.. / x2.. are set only when
\* nodeMap has the source / the target), one circle per node.
StaticLayer(ns, chs, w, d) ==
  [id      |-> "zoom-group",
   land    |-> w,
   size    |-> d,
   lines   |-> [i \in 1..Len(chs) |->
                  [id |-> chs[i].id,
                   from |-> chs[i].source \in Range(ns),
                   to   |-> chs[i].target \in Range(ns)]],
   circles |-> ns]

\* The polylines still in the svg once the old groups are removed: a polyline
\* is a descendant of the group it was appended to.
KeptPolylines(s, a) == IF RemoveGroups(s) = <<>> THEN <<>> ELSE a
\* g.append("g").append("polyline") ... .transition().duration(..).remove()
NewPolylines(effs, now) ==
  [i \in 1..Len(effs) |->
     [kind |-> effs[i].kind, id |-> effs[i].id, at |-> now, fading |-> TRUE]]
\* a transition has run for its duration
FadeDue(a, now) == a.fading /\ now - a.at >= ANIMATION_DURATION
\* a variant whose transitions end without remove()
EndFadeKeeps(a, now) ==
  [i \in DOMAIN a |-> IF FadeDue(a[i], now) THEN [a[i] EXCEPT !.fading = FALSE]
                      ELSE a[i]]
\* the transitions that are due end: opacity 0, then remove()
EndFade(a, now) == SelectSeq(a, LAMBDA x : ~FadeDue(x, now))

\* Outcome of a step in which the redraw effect did not run
NoDraw == [redrawn |-> FALSE, calls |-> 0, cues |-> 0, adhoc |-> 0, at |-> 0,
           audio |-> "none"]

\* The zoom effect selects the group present when it runs; the redraw effect,
\* which runs after it, removes that group and appends a new one.
AfterZoomEffect(zg, zoomDeps) == IF zoomDeps THEN "current" ELSE zg
AfterRedrawEffect(zg) == IF zg = "current" THEN "removed" ELSE zg

\* The effects of one LightningGraph render.  zoomDeps / drawDeps: a dependency
\* of the zoom effect / of the redraw effect changed.
RunEffectsOn(w, dims, zoomDeps, drawDeps, ns, chs, evs, trig, now) ==
  IF ~drawDeps
  THEN /\ lastDraw' = NoDraw
       /\ UNCHANGED <<lastSoundTimeRef, zoomAttached, zoomGroup, groupTransform,
                      effects, surface, anims>>
  ELSE \E r1 \in (IF trig > 0 THEN SampleIdx(Len(ns)) ELSE {0}),
          r2 \in (IF trig > 0 THEN SampleIdx(Len(ns)) ELSE {0}) :
         LET d == Redraw(ns, chs, evs, trig, MAX_CHANNEL_EVENTS, now,
                         lastSoundTimeRef, r1, r2)
         IN /\ effects' = d.effects
            /\ surface' = Append(RemoveGroups(surface), StaticLayer(ns, chs, w, dims))
            /\ anims' = KeptPolylines(surface, anims) \o NewPolylines(d.effects, now)
            /\ lastSoundTimeRef' = d.last
            /\ \E rejected \in (IF d.cues = 0 THEN {FALSE} ELSE BOOLEAN) :
                 lastDraw' = [redrawn |-> TRUE, calls |-> d.calls, cues |-> d.cues,
                              adhoc |-> d.adhoc, at |-> now,
                              audio |-> IF d.cues = 0 THEN "none"
                                        ELSE PlayCaught(rejected)]
            /\ zoomAttached' = (zoomAttached \/ zoomDeps)
            /\ zoomGroup' = AfterRedrawEffect(AfterZoomEffect(zoomGroup, zoomDeps))
            /\ groupTransform' = NoTransform
\* a render in which the map dataset and the size are the ones of the state
RunEffects(zoomDeps, drawDeps, ns, chs, evs, trig, now) ==
  RunEffectsOn(world, dimensions, zoomDeps, drawDeps, ns, chs, evs, trig, now)

----------------------------------------------------------------------------
\* State after mount: LightningGraph has drawn once, App's poll effect has
\* called fetchChannelsGeo (first log line), and the render that log line
\* causes has re-run both LightningGraph effects.
NoPoll == [kind |-> "none", first |-> FALSE, baseline |-> FALSE,
           P |-> <<>>, C |-> <<>>, detected |-> <<>>, handed |-> <<>>,
           warned |-> FALSE, before |-> <<>>, now |-> 0]

Init ==
  /\ nodes = <<>>
  /\ channels = <<>>
  /\ channelEvents = <<>>
  /\ prevChannelsRef = <<>>
  /\ isFirstLoad = TRUE
  /\ logs = <<"fetching">>
  /\ showAllChannels = FALSE
  /\ debugLightningTrigger = 0
  /\ MAX_CHANNEL_EVENTS \in 0..MaxCap
  /\ clock = StartClock
  /\ inflight = 1
  /\ awaiting = {1}
  /\ polls = 1
  /\ world = FALSE
  /\ dimensions = InitialSize
  /\ lastSoundTimeRef = 0
  /\ zoomAttached = TRUE
  /\ zoomGroup = "removed"
  /\ zoomTransform = Identity
  /\ groupTransform = NoTransform
  /\ effects = <<>>
  /\ surface = <<StaticLayer(<<>>, <<>>, FALSE, InitialSize)>>
  /\ anims = <<>>
  /\ lastPoll = NoPoll
  /\ accepted = FALSE
  /\ acceptedFrom = 0
  /\ lastDraw = NoDraw
  /\ zoomedBy = "none"

\* An App render gives LightningGraph a new channels array unless
\* showAllChannels is on (then the prop is the channels state itself).
PropIsNewArray == ~showAllChannels

\* The clock advances.
Tick ==
  /\ clock < MaxClock
  /\ clock' = clock + TickMs
  /\ lastPoll' = NoPoll
  /\ lastDraw' = NoDraw
  /\ UNCHANGED <<appVars, inflight, polls, awaiting, viewVars, zoomedBy, accepted, acceptedFrom>>

\* setInterval fires: fetchChannelsGeo logs and awaits fetch().
StartPoll ==
  /\ polls < MaxPolls
  /\ inflight < MaxInflight
  /\ polls' = polls + 1
  /\ inflight' = inflight + 1
  /\ awaiting' = awaiting \cup {polls + 1}
  /\ logs' = Log(logs, "fetching")
  /\ RunEffects(PropIsNewArray, PropIsNewArray, nodes,
                ChannelsProp(showAllChannels, channels, channelEvents),
                channelEvents, debugLightningTrigger, clock)
  /\ UNCHANGED <<nodes, channels, channelEvents, prevChannelsRef, isFirstLoad,
                 showAllChannels, debugLightningTrigger, MAX_CHANNEL_EVENTS,
                 clock, world, dimensions, zoomTransform, zoomedBy, accepted, acceptedFrom>>
  /\ lastPoll' = NoPoll

\* The response is not ok: log and return.
PollFailed ==
  /\ inflight > 0
  /\ inflight' = inflight - 1
  /\ \E p \in awaiting : awaiting' = awaiting \ {p}
  /\ logs' = Log(logs, "failed")
  /\ lastPoll' = [NoPoll EXCEPT !.kind = "failed"]
  /\ RunEffects(PropIsNewArray, PropIsNewArray, nodes,
                ChannelsProp(showAllChannels, channels, channelEvents),
                channelEvents, debugLightningTrigger, clock)
  /\ UNCHANGED <<nodes, channels, channelEvents, prevChannelsRef, isFirstLoad,
                 showAllChannels, debugLightningTrigger, MAX_CHANNEL_EVENTS,
                 clock, polls, world, dimensions, zoomTransform, zoomedBy, accepted, acceptedFrom>>

\* a variant whose catch block also forgets the baseline
PollThrewResetsBaseline ==
  /\ inflight > 0
  /\ inflight' = inflight - 1
  /\ \E p \in awaiting : awaiting' = awaiting \ {p}
  /\ logs' = Log(logs, "error")
  /\ lastPoll' = [NoPoll EXCEPT !.kind = "error"]
  /\ prevChannelsRef' = <<>>
  /\ RunEffects(PropIsNewArray, PropIsNewArray, nodes,
                ChannelsProp(showAllChannels, channels, channelEvents),
                channelEvents, debugLightningTrigger, clock)
  /\ UNCHANGED <<nodes, channels, channelEvents, isFirstLoad,
                 showAllChannels, debugLightningTrigger, MAX_CHANNEL_EVENTS,
                 clock, polls, world, dimensions, zoomTransform, zoomedBy, accepted, acceptedFrom>>
\* fetch() rejects, res.json() rejects, or the body is not an array of arrays:
\* the exception is thrown before any state is written and the catch logs it.
PollThrew ==
  /\ inflight > 0
  /\ inflight' = inflight - 1
  /\ \E p \in awaiting : awaiting' = awaiting \ {p}
  /\ logs' = Log(logs, "error")
  /\ lastPoll' = [NoPoll EXCEPT !.kind = "error"]
  /\ RunEffects(PropIsNewArray, PropIsNewArray, nodes,
                ChannelsProp(showAllChannels, channels, channelEvents),
                channelEvents, debugLightningTrigger, clock)
  /\ UNCHANGED <<nodes, channels, channelEvents, prevChannelsRef, isFirstLoad,
                 showAllChannels, debugLightningTrigger, MAX_CHANNEL_EVENTS,
                 clock, polls, world, dimensions, zoomTransform, zoomedBy, accepted, acceptedFrom>>

\* The baseline branch: no detection, pending events reset.
AcceptBaseline(data) ==
  LET nodeArr    == NodeArr(data, <<>>)
      channelArr == ChannelArr(data)
      cur        == CurrentChannelIds(channelArr)
  IN /\ isFirstLoad' = FALSE
     /\ prevChannelsRef' = cur
     /\ nodes' = nodeArr
     /\ channels' = channelArr
     /\ channelEvents' = <<>>
     /\ logs' = LogAll(logs, <<"received", "initial">>)
     /\ clock' = clock
     /\ lastPoll' = [kind |-> "ok", first |-> ~accepted, baseline |-> TRUE,
                     P |-> prevChannelsRef, C |-> cur, detected |-> <<>>,
                     handed |-> <<>>, warned |-> FALSE,
                     before |-> channelEvents, now |-> clock]
     /\ RunEffects(TRUE, TRUE, nodeArr,
                   ChannelsProp(showAllChannels, channelArr, <<>>),
                   <<>>, debugLightningTrigger, clock)

\* The diff branch: detect, limit, replace the snapshot, admit.
AcceptDiff(data) ==
  LET nodeArr    == NodeArr(data, <<>>)
      channelArr == ChannelArr(data)
      cur        == CurrentChannelIds(channelArr)
      prev       == prevChannelsRef
  IN \E r \in Readings(NumDetected(prev, cur)) :
       LET detected  == DetectEvents(prev, cur,
                                     Stamps(NumDetected(prev, cur), r[1], r[2]))
           newEvents == LimitNewEvents(detected, MAX_CHANNEL_EVENTS)
           now       == r[3]
           pending   == AdmitEvents(channelEvents, newEvents, now, MAX_CHANNEL_EVENTS)
       IN /\ prevChannelsRef' = cur
          /\ nodes' = nodeArr
          /\ channels' = channelArr
          /\ channelEvents' = pending
          /\ logs' = LogAll(logs, DiffLogLines(detected, MAX_CHANNEL_EVENTS))
          /\ clock' = now
          /\ isFirstLoad' = isFirstLoad
          /\ lastPoll' = [kind |-> "ok", first |-> ~accepted, baseline |-> FALSE,
                          P |-> prev, C |-> cur, detected |-> detected,
                          handed |-> newEvents,
                          warned |-> TooMany(detected, MAX_CHANNEL_EVENTS),
                          before |-> channelEvents, now |-> now]
          /\ RunEffects(TRUE, TRUE, nodeArr,
                        ChannelsProp(showAllChannels, channelArr, pending),
                        pending, debugLightningTrigger, now)

\* The response is ok and parses: the rest of fetchChannelsGeo runs.
PollSucceededWith(bodies) ==
  /\ inflight > 0
  /\ inflight' = inflight - 1
  /\ \E p \in awaiting : awaiting' = awaiting \ {p} /\ acceptedFrom' = p
  /\ accepted' = TRUE
  /\ \E data \in bodies :
       IF IsBaseline(isFirstLoad, prevChannelsRef)
       THEN AcceptBaseline(data)
       ELSE AcceptDiff(data)
  /\ UNCHANGED <<showAllChannels, debugLightningTrigger, MAX_CHANNEL_EVENTS,
                 polls, world, dimensions, zoomTransform, zoomedBy>>
PollSucceeded == PollSucceededWith(Snapshots)

----------------------------------------------------------------------------
\* User interface and LightningGraph inputs

\* "Trigger Debug Lightning" button or the debug interval: t => t + 1
DebugTrigger ==
  /\ debugLightningTrigger < MaxTrigger
  /\ debugLightningTrigger' = debugLightningTrigger + 1
  /\ RunEffects(PropIsNewArray, TRUE, nodes,
                ChannelsProp(showAllChannels, channels, channelEvents),
                channelEvents, debugLightningTrigger + 1, clock)
  /\ UNCHANGED <<nodes, channels, channelEvents, prevChannelsRef, isFirstLoad,
                 logs, showAllChannels, MAX_CHANNEL_EVENTS, envVars, world,
                 dimensions, zoomTransform, zoomedBy, accepted, acceptedFrom>>
  /\ lastPoll' = NoPoll

\* "Show all channels" button: the channels prop switches between the
\* channels state and the filtered array.
ToggleShowAllChannels ==
  /\ showAllChannels' = ~showAllChannels
  /\ RunEffects(TRUE, TRUE, nodes,
                ChannelsProp(~showAllChannels, channels, channelEvents),
                channelEvents, debugLightningTrigger, clock)
  /\ UNCHANGED <<nodes, channels, channelEvents, prevChannelsRef, isFirstLoad,
                 logs, debugLightningTrigger, MAX_CHANNEL_EVENTS, envVars, world,
                 dimensions, zoomTransform, zoomedBy, accepted, acceptedFrom>>
  /\ lastPoll' = NoPoll

\* window resize: setDimensions({width, height}), always a new object
ResizeTo(d) ==
  /\ dimensions' = d
  /\ RunEffectsOn(world, d, d # dimensions, TRUE, nodes,
                ChannelsProp(showAllChannels, channels, channelEvents),
                channelEvents, debugLightningTrigger, clock)
  /\ lastPoll' = NoPoll
  /\ UNCHANGED <<appVars, envVars, world, zoomTransform, zoomedBy, accepted, acceptedFrom>>
Resize == \E d \in Sizes : ResizeTo(d)

\* The world map dataset arrives: setWorld(countries)
WorldLoaded ==
  /\ ~world
  /\ world' = TRUE
  /\ RunEffectsOn(TRUE, dimensions, TRUE, TRUE, nodes,
                ChannelsProp(showAllChannels, channels, channelEvents),
                channelEvents, debugLightningTrigger, clock)
  /\ lastPoll' = NoPoll
  /\ UNCHANGED <<appVars, envVars, dimensions, zoomTransform, zoomedBy, accepted, acceptedFrom>>

\* a variant without scaleExtent
NoClamp(k) == k
\* d3.zoom().scaleExtent([0.5, 10]): the new scale is clamped
ClampScale(k) == Max(ScaleMin, Min(ScaleMax, k))
\* .filter(event => event.type === "wheel")
ZoomFilter(type) == type = "wheel"
\* The transform the zoom behaviour computes for an input event it accepts:
\* wheel multiplies the scale by the wheel factor, dblclick doubles it,
\* mousedown starts a drag that pans.
ZoomOnInput(type, t, f) ==
  IF ~ZoomFilter(type) THEN t
  ELSE IF type = "wheel" THEN [t EXCEPT !.k = ClampScale((t.k * f[1]) \div f[2])]
  ELSE IF type = "dblclick" THEN [t EXCEPT !.k = ClampScale(2 * t.k)]
  ELSE [t EXCEPT !.x = t.x + 1]

\* A DOM input event on the svg; on a change the zoom handler writes the
\* transform to the group it closed over.
InputEvent(type, f) ==
  LET t2 == IF zoomAttached THEN ZoomOnInput(type, zoomTransform, f)
            ELSE zoomTransform
  IN /\ zoomTransform' = t2
     /\ zoomedBy' = IF t2 # zoomTransform THEN type ELSE zoomedBy
     /\ groupTransform' =
          IF t2 # zoomTransform /\ zoomGroup = "current" THEN t2 ELSE groupTransform
     /\ lastPoll' = NoPoll
     /\ lastDraw' = NoDraw
     /\ UNCHANGED <<appVars, envVars, world, dimensions, lastSoundTimeRef,
                    zoomAttached, zoomGroup, effects, surface, anims, accepted, acceptedFrom>>

\* The d3 timer fires for the transitions that are due.
FadeEnd ==
  /\ \E i \in DOMAIN anims : FadeDue(anims[i], clock)
  /\ anims' = EndFade(anims, clock)
  /\ lastPoll' = NoPoll
  /\ lastDraw' = NoDraw
  /\ UNCHANGED <<appVars, envVars, world, dimensions, lastSoundTimeRef,
                 zoomAttached, zoomGroup, zoomTransform, groupTransform,
                 effects, surface, zoomedBy, accepted, acceptedFrom>>

Wheel == \E f \in WheelFactors : InputEvent("wheel", f)
OtherInput == \E type \in OtherInputs : InputEvent(type, <<1, 1>>)

----------------------------------------------------------------------------
Next ==
  \/ Tick
  \/ StartPoll
  \/ PollFailed
  \/ PollThrew
  \/ PollSucceeded
  \/ DebugTrigger
  \/ ToggleShowAllChannels
  \/ Resize
  \/ WorldLoaded
  \/ Wheel
  \/ OtherInput
  \/ FadeEnd

Spec == Init /\ [][Next]_vars

\* Restrictions of the environment.  The poll handlers read and write only the
\* App state and the clock, none of which a LightningGraph input changes; the
\* sound cooldown and the debug effect are decided by the redraw effect alone;
\* the zoom transform is touched by input events and by the two effects only.
\* In SpecPoll the responses arrive in the order of their requests: what a
\* completing call reads and writes does not depend on which call it is, so
\* this leaves out no value of the App state; SpecOrder lets them arrive in
\* any order, the clock standing still.
Oldest(ps) == CHOOSE p \in ps : \A q \in ps : p <= q
InOrder == awaiting' = awaiting \ {Oldest(awaiting)}
PollFailedInOrder == PollFailed /\ InOrder
PollThrewInOrder == PollThrew /\ InOrder
PollSucceededInOrder == PollSucceeded /\ InOrder
NextPoll ==
  \/ Tick
  \/ StartPoll
  \/ PollFailedInOrder
  \/ PollThrewInOrder
  \/ PollSucceededInOrder
SpecPoll == Init /\ [][NextPoll]_vars

NextOrder ==
  \/ StartPoll
  \/ PollFailed
  \/ PollSucceeded
SpecOrder == Init /\ [][NextOrder]_vars

\* For the sound and the debug effect: polls that do not overlap and return
\* at least one channel, the largest cap, resize events that keep the width,
\* a few cooldown periods of time.
TickSound == clock < StartClock + MaxSoundTicks * TickMs /\ Tick
NonEmptySnapshots == Snapshots \ {<<>>}
StartPollSerial == inflight = 0 /\ StartPoll
InitSound == Init /\ MAX_CHANNEL_EVENTS = MaxCap
NextSound ==
  \/ TickSound
  \/ StartPollSerial
  \/ PollSucceededWith(NonEmptySnapshots)
  \/ DebugTrigger
  \/ ResizeTo(dimensions)
SpecSound == InitSound /\ [][NextSound]_vars

NextZoom ==
  \/ Wheel
  \/ OtherInput
  \/ Resize
  \/ WorldLoaded
  \/ ToggleShowAllChannels
  \/ DebugTrigger
  \/ PollSucceeded
SpecZoom == Init /\ [][NextZoom]_vars

\* For the fade of the polylines: polls that do not overlap and return at
\* least one channel, resize events that keep the width, every cap, the whole
\* range of the clock; the timer of a transition that is due fires before the
\* clock moves on.
TickFade == (\A i \in DOMAIN anims : ~FadeDue(anims[i], clock)) /\ Tick
NextFade ==
  \/ TickFade
  \/ FadeEnd
  \/ StartPollSerial
  \/ PollSucceededWith(NonEmptySnapshots)
  \/ ResizeTo(dimensions)
SpecFade == Init /\ [][NextFade]_vars

\* For the static layer: polls one at a time, resizes, the map dataset and the
\* channel filter; the clock and the debug trigger, which the static layer does
\* not read, stand still.
NextDraw ==
  \/ StartPollSerial
  \/ PollFailed
  \/ PollSucceeded
  \/ Resize
  \/ WorldLoaded
  \/ ToggleShowAllChannels
SpecDraw == Init /\ [][NextDraw]_vars

----------------------------------------------------------------------------
\* Properties

IdsOf(evs, st) == {evs[i].id : i \in {j \in DOMAIN evs : evs[j].status = st}}
\* the last min(n, Len(s)) entries of s
LastN(s, n) == SubSeq(s, Len(s) - Min(n, Len(s)) + 1, Len(s))
Young(evs, now) == SelectSeq(evs, LAMBDA e : now - e.ts < WINDOW_MS)
OkPoll == lastPoll.kind = "ok"

\* one open event per id of C \ P, one closed event per id of P \ C, nothing else
DiffExact(P, C, evs) ==
  /\ IdsOf(evs, "open") = Range(C) \ Range(P)
  /\ IdsOf(evs, "closed") = Range(P) \ Range(C)
  /\ Len(evs) = Cardinality(Range(C) \ Range(P)) + Cardinality(Range(P) \ Range(C))

\* C1, as stated: every successful poll after the first accepted snapshot
\* detects, before truncation, exactly the opens of C \ P and the closes of
\* P \ C, for all P and C, the empty sets included.
C1_DiffAllPairs ==
  (OkPoll /\ ~lastPoll.first) =>
     DiffExact(lastPoll.P, lastPoll.C, lastPoll.detected)

\* C1, amended: the same for every non-empty P; when P is empty the poll sets
\* the baseline again and detects no event.
C1_DiffNonEmptyBaseline ==
  (OkPoll /\ ~lastPoll.first) =>
     IF lastPoll.P = <<>>
     THEN lastPoll.detected = <<>> /\ lastPoll.baseline
     ELSE DiffExact(lastPoll.P, lastPoll.C, lastPoll.detected)

C1_Witness ==
  /\ OkPoll /\ ~lastPoll.first /\ lastPoll.P # <<>>
  /\ IdsOf(lastPoll.detected, "open") # {}
  /\ IdsOf(lastPoll.detected, "closed") # {}

\* C2: the first snapshot accepted produces no event whatever its content:
\* nothing is detected, the pending collection is empty, the baseline is set.
C2_FirstSnapshotNoEvents ==
  (OkPoll /\ lastPoll.first) =>
     /\ lastPoll.detected = <<>>
     /\ lastPoll.handed = <<>>
     /\ channelEvents = <<>>
     /\ prevChannelsRef = lastPoll.C
     /\ ~isFirstLoad
     /\ \A i \in DOMAIN logs : logs[i] \notin {"opened", "closed", "warning"}

C2_Witness ==
  /\ OkPoll /\ lastPoll.first
  /\ lastPoll.C # <<>>
  /\ \E i \in DOMAIN logs : logs[i] \in {"failed", "error"}

\* C3: for every cap the pending collection holds at most cap entries and a
\* redraw animates at most cap organic events.
C3_CapBound ==
  /\ Len(channelEvents) <= MAX_CHANNEL_EVENTS
  /\ Len(SelectSeq(effects, LAMBDA e : e.kind = "organic")) <= MAX_CHANNEL_EVENTS

\* C4: every step starts at most one sound cue, and a cue is started only when
\* more than 1000 ms have passed since the cue before it (lastSoundTimeRef is
\* the start of the latest cue and changes only when a cue starts), so any two
\* cues are more than 1000 ms apart.
C4_CueCooldown ==
  [][/\ lastDraw'.cues <= 1
     /\ lastDraw'.cues = 1 =>
          /\ lastSoundTimeRef' = lastDraw'.at
          /\ lastDraw'.at - lastSoundTimeRef > COOLDOWN_MS
     /\ lastDraw'.cues = 0 => lastSoundTimeRef' = lastSoundTimeRef]_vars

\* a redraw with a debug effect and a batch of events: two calls, one cue
C4_Witness == lastDraw.calls = 2 /\ lastDraw.cues = 1 /\ Len(effects) >= 2

\* C5: a step draws exactly as many ad-hoc effects as it increments the debug
\* trigger (none while the trigger stays 0, one per increment), so the number
\* drawn always equals the number of increments.
C5_OneEffectPerIncrement ==
  [][lastDraw'.adhoc = debugLightningTrigger' - debugLightningTrigger]_vars

\* C6: every ad-hoc effect drawn runs between two distinct node indices.
C6_DistinctIndices ==
  \A i \in DOMAIN effects :
     effects[i].kind = "debug" => effects[i].sidx # effects[i].tidx

\* C7: after a successful poll the pending collection is the last cap entries
\* of (the previously pending events younger than the window) followed by the
\* newly detected events.
C7_AdmissionResult ==
  OkPoll =>
     channelEvents =
        LastN(Young(lastPoll.before, lastPoll.now) \o lastPoll.detected,
              MAX_CHANNEL_EVENTS)

\* C8: a failed poll (response not ok, or an exception) leaves nodes, channels,
\* the baseline, the first-load flag and the pending events as they were and
\* writes one log line.
C8_FailedPollKeepsState ==
  [][lastPoll'.kind \in {"failed", "error"} =>
       /\ nodes' = nodes
       /\ channels' = channels
       /\ prevChannelsRef' = prevChannelsRef
       /\ isFirstLoad' = isFirstLoad
       /\ channelEvents' = channelEvents
       /\ logs' = <<lastPoll'.kind>> \o SubSeq(logs, 1, Min(Len(logs), LogKeep))]_vars

C8_Witness ==
  /\ lastPoll.kind \in {"failed", "error"}
  /\ accepted
  /\ channels # <<>>

\* C9: when a diff detects n events (opens first, then closes) and n exceeds
\* the cap, the last cap of them are handed to admission and a warning line is
\* written; otherwise all n are handed on and no warning is written.
C9_TailKept ==
  (OkPoll /\ ~lastPoll.baseline) =>
     LET d == lastPoll.detected
     IN /\ \A i, j \in DOMAIN d :
              (d[i].status = "open" /\ d[j].status = "closed") => i < j
        /\ Len(d) > MAX_CHANNEL_EVENTS =>
              /\ lastPoll.handed = LastN(d, MAX_CHANNEL_EVENTS)
              /\ logs[2] = "warning"
        /\ Len(d) <= MAX_CHANNEL_EVENTS =>
              /\ lastPoll.handed = d
              /\ logs[2] # "warning"

\* C10: the zoom scale stays within [0.5, 10] and only wheel events change the
\* zoom transform.
C10_ZoomScale ==
  /\ ScaleMin <= zoomTransform.k
  /\ zoomTransform.k <= ScaleMax
  /\ zoomedBy \in {"none", "wheel"}

\* a wheel event beyond the maximum was clamped
C10_Witness == zoomTransform.k = ScaleMax /\ zoomedBy = "wheel"

\* the organic polylines of the latest redraw, as <<id, stroke>>
OrganicDrawn ==
  LET o == SelectSeq(effects, LAMBDA e : e.kind = "organic")
  IN [i \in 1..Len(o) |-> <<o[i].id, o[i].stroke>>]
ChannelsShown == ChannelsProp(showAllChannels, channels, channelEvents)
ResolvesIn(ns, chs, id) ==
  \E i \in DOMAIN chs :
     chs[i].id = id /\ chs[i].source \in Range(ns) /\ chs[i].target \in Range(ns)
ColourOf(status) == IF status = "closed" THEN ClosedColour ELSE OpenColour
\* what the redraw is to draw for the pending events evs under cap
ToDraw(ns, chs, evs, cap) ==
  LET r == SelectSeq(LastN(evs, cap), LAMBDA e : ResolvesIn(ns, chs, e.id))
  IN [i \in 1..Len(r) |-> <<r[i].id, ColourOf(r[i].status)>>]

\* C11: the organic polylines on the surface are exactly those of the events,
\* among the last cap pending events, whose channel is in the channel list
\* with both ends in the node map, each in the colour of its status.
C11_OrganicEffectsResolved ==
  OrganicDrawn = ToDraw(nodes, ChannelsShown, channelEvents, MAX_CHANNEL_EVENTS)

\* the render group on display: the one appended last
Displayed == surface[Len(surface)]
ResolvedChannels(ns, chs) ==
  SelectSeq(chs, LAMBDA c : c.source \in Range(ns) /\ c.target \in Range(ns))

\* C12: the static channel layer holds a line for exactly the channels of the
\* channel list whose source and target are both in the node map; a channel
\* with an unknown end has no line.
C12_LinesOnlyForResolved ==
  LET r == ResolvedChannels(nodes, ChannelsShown)
  IN [i \in DOMAIN Displayed.lines |-> Displayed.lines[i].id]
       = [i \in DOMAIN r |-> r[i].id]

C13_StaticLayer ==
  /\ Len(surface) = 1
  /\ Displayed.id = "zoom-group"
  /\ Displayed.land = world
  /\ Displayed.size = dimensions
  /\ Displayed.circles = nodes
  /\ [i \in DOMAIN Displayed.lines |-> Displayed.lines[i].id]
       = [i \in DOMAIN ChannelsShown |-> ChannelsShown[i].id]
C13_SameInputs ==
  /\ nodes' = nodes
  /\ ChannelsShown' = ChannelsShown
  /\ world' = world
  /\ dimensions' = dimensions

\* C13: the surface always holds exactly one render group, whose map, channel
\* and node primitives are those of the current map dataset, size, channel
\* list and nodes and nothing else; a redraw with the same inputs leaves the
\* same static layer.
C13_FullReplace ==
  /\ []C13_StaticLayer
  /\ [][(lastDraw'.redrawn /\ C13_SameInputs) => surface' = surface]_vars

\* a second snapshot with other channels was accepted and drawn
C13_Witness ==
  /\ OkPoll /\ ~lastPoll.first
  /\ lastPoll.P # <<>>
  /\ Range(lastPoll.P) \cap Range(lastPoll.C) = {}
  /\ lastDraw.redrawn
  /\ Displayed.circles # <<>>
  /\ Displayed.land
  /\ Displayed.size # InitialSize

\* the transform a group is shown with: none is the identity
Shown(t) == IF t = NoTransform THEN Identity ELSE t

\* C14: a redraw leaves the transform of the displayed render group as it
\* was, so after the redraw the group still shows the zoom transform reached
\* by wheel input.
C14_RedrawKeepsTransform ==
  [][lastDraw'.redrawn =>
       /\ groupTransform' = groupTransform
       /\ Shown(groupTransform') = zoomTransform']_vars

\* C17: an input event that changes the zoom transform sets the transform of
\* the render group on display to the new zoom transform.
C17_WheelMovesDisplayedGroup ==
  [][zoomTransform' # zoomTransform => groupTransform' = zoomTransform']_vars

\* C15: no rejection of audio.play() is left unhandled; a redraw whose cue was
\* rejected still completes: it sets the cooldown timestamp to its clock
\* reading and draws the debug polyline and every organic polyline it is to
\* draw.
C15_RejectedPlaySwallowed ==
  [][/\ lastDraw'.audio # "unhandled"
     /\ lastDraw'.audio = "swallowed" =>
          /\ lastDraw'.redrawn
          /\ lastDraw'.cues = 1
          /\ lastSoundTimeRef' = lastDraw'.at
          /\ Len(surface') = 1
          /\ lastDraw'.adhoc =
               (IF debugLightningTrigger' > 0 /\ nodes' # <<>> THEN 1 ELSE 0)
          /\ OrganicDrawn' =
               ToDraw(nodes', ChannelsShown', channelEvents', MAX_CHANNEL_EVENTS')
          /\ Len(effects') = lastDraw'.adhoc + Len(OrganicDrawn')]_vars

\* a rejected cue in a redraw that drew a debug and an organic polyline
C15_Witness ==
  /\ lastDraw.audio = "swallowed"
  /\ lastDraw.adhoc = 1
  /\ Len(effects) >= 2

\* C16: polls are serialized: while one call of fetchChannelsGeo awaits its
\* response no other call is started, so at most one poll is in flight.
C16_PollsSerialized == inflight <= 1

\* C18: one clock reading per admission: all events detected by a poll carry
\* the same timestamp, which is the reading the window pruning of that poll
\* uses, and the redraw of that admission checks the cooldown at that reading.
C18_OneClockReading ==
  (OkPoll /\ ~lastPoll.baseline) =>
     /\ \A i \in DOMAIN lastPoll.detected : lastPoll.detected[i].ts = lastPoll.now
     /\ lastDraw.redrawn => lastDraw.at = lastPoll.now

\* C19: in every state the pending events handed to the renderer are all
\* younger than the window and are at most cap in number.
C19_PendingInsideWindowAndCap ==
  /\ \A i \in DOMAIN channelEvents : clock - channelEvents[i].ts < WINDOW_MS
  /\ Len(channelEvents) <= MAX_CHANNEL_EVENTS

ChannelEnds == {channels[i].source : i \in DOMAIN channels}
                 \cup {channels[i].target : i \in DOMAIN channels}

\* C20: the diff baseline is the set of ids of the channels state, and nodes
\* and channels come from the same poll: the nodes are the ends of the
\* channels; a failed poll changes none of the three.
C20_SnapshotReplacedWhole ==
  /\ Range(prevChannelsRef) = {channels[i].id : i \in DOMAIN channels}
  /\ Range(nodes) = ChannelEnds
  /\ accepted \/ (nodes = <<>> /\ channels = <<>>)

\* a second snapshot with other channels has replaced the first
C20_Witness ==
  /\ OkPoll /\ ~lastPoll.first /\ ~lastPoll.baseline
  /\ Range(lastPoll.P) # Range(lastPoll.C)
  /\ channels # <<>>
  /\ prevChannelsRef = lastPoll.C

\* C21: every polyline in the svg was drawn at most the fade duration ago and
\* its transition is running: it leaves the svg when its fade ends or with
\* the group an earlier redraw removes; the svg never holds more polylines
\* than one redraw appends.
C21_PolylinesSelfTerminate ==
  /\ \A i \in DOMAIN anims :
        /\ anims[i].fading
        /\ clock - anims[i].at <= ANIMATION_DURATION
  /\ Len(anims) <= Len(channelEvents) + 1

\* the polylines of the latest redraw have faded and are gone
C21_Witness == effects # <<>> /\ anims = <<>>

\* C22: snapshots are accepted in the order their polls were started: the
\* call whose snapshot is accepted was never started before the call whose
\* snapshot it replaces.
C22_AcceptedInStartOrder ==
  [][acceptedFrom' >= acceptedFrom]_vars

\* the two ends of the channel an event is about are nodes of the snapshot
EndsAreNodes(e) ==
  /\ Split(e.id)[1] \in Range(nodes)
  /\ Split(e.id)[2] \in Range(nodes)

\* C23: after a poll that admits events, every event it admitted whose channel
\* ends are nodes of the new snapshot has a polyline in the colour of its
\* status, whether or not all channels are shown.
C23_AdmittedEventsAnimated ==
  (OkPoll /\ ~lastPoll.baseline) =>
     \A i \in DOMAIN channelEvents :
        (channelEvents[i] \in Range(lastPoll.handed) /\ EndsAreNodes(channelEvents[i]))
          => <<channelEvents[i].id, ColourOf(channelEvents[i].status)>>
               \in Range(OrganicDrawn)

\* C24: a redraw in a step that admits nothing (a resize, the map dataset, the
\* channel filter, the debug trigger, a log line) draws no polyline for the
\* pending events and starts no sound cue for them.
C24_AnimatedOnce ==
  [][(lastDraw'.redrawn /\ lastPoll'.kind # "ok") =>
       /\ OrganicDrawn' = <<>>
       /\ lastDraw'.adhoc = 0 => lastDraw'.cues = 0]_vars

====
